---------------------------- MODULE Spec2Model ----------------------------
(***************************************************************************)
(* Model of the flood-forecasting engine, src/services/forecast_service.py *)
(* (class ForecastService), and of the callers that share one instance of  *)
(* it (src/routes/flood_data.py).                                          *)
(*                                                                         *)
(* Python floats are modelled as fixed-point numbers: the integer n stands *)
(* for the real n / Scale.  Every arithmetic step of the source is one     *)
(* fixed-point step here, rounded towards minus infinity.                  *)
(***************************************************************************)
EXTENDS Integers, Sequences, FiniteSets, TLC

VARIABLES
    current_algorithm,  \* ForecastService.current_algorithm
    algorithms,         \* ForecastService.algorithms: identifier -> label
    historical_data,    \* the batch of raw observations the caller holds
    hours,              \* the horizon the caller holds
    now,                \* the wall clock read by datetime.now()
    result,             \* outcome of the caller's last call on the service
    frames              \* the generate_forecast calls in progress, per thread

vars == <<current_algorithm, algorithms, historical_data, hours, now, result,
          frames>>

----------------------------------------------------------------------------
(* Bounds of the model *)

MaxObs == 2         \* freely chosen observations in a batch
MaxHours == 3       \* largest integer horizon
MaxClock == 1       \* clock ticks
MaxBatch == 2       \* observations handed to the cleaner on top of the example

----------------------------------------------------------------------------
(* Fixed-point arithmetic standing for Python's float *)

Scale == 10 ^ 4

Fix(n) == n * Scale

\* floor(a * b / Scale) without leaving 32 bits, from the quotients and the
\* remainders of a and b by Scale
Mul(a, b) ==
    (a \div Scale) * b + (a % Scale) * (b \div Scale)
        + ((a % Scale) * (b % Scale)) \div Scale

\* long division: the quotient q and remainder r so far, one more decimal
\* digit per step
DivDigits[q \in Int, r \in Nat, b \in Nat, unit \in Nat] ==
    IF unit = 1 THEN q
    ELSE DivDigits[10 * q + (10 * r) \div b, (10 * r) % b, b, unit \div 10]

\* floor(a * Scale / b) without leaving 32 bits, one decimal digit at a time; b > 0
Div(a, b) == DivDigits[a \div b, a % b, b, Scale]

\* the one element of a singleton set: names an intermediate value, once
The(S) == CHOOSE x \in S : TRUE

Max(a, b) == IF b > a THEN b ELSE a

Min(a, b) == IF b < a THEN b ELSE a

\* bisection for floor(sqrt(n)) between lo and hi
SqrtSearch[n \in Nat, lo \in Nat, hi \in Nat] ==
    IF lo >= hi THEN lo
    ELSE LET mid == (lo + hi + 1) \div 2
         IN  IF mid * mid <= n THEN SqrtSearch[n, mid, hi]
                               ELSE SqrtSearch[n, lo, mid - 1]

\* floor(sqrt(n)) for 0 <= n < 2^31
ISqrt(n) == SqrtSearch[n, 0, 46340]

\* math.sqrt on a fixed-point number: sqrt(v / Scale) * Scale = sqrt(v * Scale)
Sqrt(v) == ISqrt(v * Scale)

RECURSIVE Sum(_)
Sum(s) == IF s = <<>> THEN 0 ELSE Head(s) + Sum(Tail(s))

\* data[-n:]
LastN(s, n) == IF Len(s) <= n THEN s ELSE SubSeq(s, Len(s) - n + 1, Len(s))

\* statistics.mean
Mean(s) == Sum(s) \div Len(s)

\* statistics.stdev: sqrt(sum((x - mean)^2) / (n - 1)), Len(s) >= 2
Stdev(s) ==
    LET m == Mean(s)
        sq == [i \in 1..Len(s) |-> Mul(s[i] - m, s[i] - m)]
    IN  Sqrt(Sum(sq) \div (Len(s) - 1))

\* round(x, 3): to the nearest multiple of 0.001, ties to the even one
Round3(x) ==
    LET step == Scale \div 1000
        q == x \div step
        r == x % step
    IN  IF 2 * r < step THEN q * step
        ELSE IF 2 * r > step THEN (q + 1) * step
        ELSE IF q % 2 = 0 THEN q * step ELSE (q + 1) * step

----------------------------------------------------------------------------
(* Python values found in a field of a raw observation *)

Absent == [kind |-> "absent", v |-> 0, s |-> <<>>]   \* key not in the mapping
None == [kind |-> "none", v |-> 0, s |-> <<>>]
Num(n) == [kind |-> "num", v |-> n, s |-> <<>>]       \* int or float, fixed-point
Str(s) == [kind |-> "str", v |-> 0, s |-> s]          \* str, as its characters
Huge == [kind |-> "huge", v |-> 0, s |-> <<>>]        \* int beyond the float range
Obj == [kind |-> "obj", v |-> 0, s |-> <<>>]          \* non-empty list or dict

DigitVal == [c \in {"0", "1", "2", "3", "4", "5", "6", "7", "8", "9"} |->
               CASE c = "0" -> 0 [] c = "1" -> 1 [] c = "2" -> 2 [] c = "3" -> 3
                 [] c = "4" -> 4 [] c = "5" -> 5 [] c = "6" -> 6 [] c = "7" -> 7
                 [] c = "8" -> 8 [] c = "9" -> 9]

IsDigits(s) == \A i \in 1..Len(s) : s[i] \in DOMAIN DigitVal

RECURSIVE IntPart(_)
IntPart(s) ==
    IF s = <<>> THEN 0
    ELSE 10 * IntPart(SubSeq(s, 1, Len(s) - 1)) + Fix(DigitVal[s[Len(s)]])

RECURSIVE FracPart(_, _)
FracPart(s, unit) ==
    IF s = <<>> \/ unit = 0 THEN 0
    ELSE DigitVal[Head(s)] * unit + FracPart(Tail(s), unit \div 10)

\* bool(x)
Truthy(x) ==
    CASE x.kind = "num" -> x.v # 0
      [] x.kind = "str" -> x.s # <<>>
      [] x.kind = "huge" -> TRUE
      [] x.kind = "obj" -> TRUE
      [] OTHER -> FALSE

\* float(s) for a str of sign, digits and point: the number, or ValueError
ParseFloat(s) ==
    LET neg == s # <<>> /\ Head(s) = "-"
        body == IF neg THEN Tail(s) ELSE s
        dots == {i \in 1..Len(body) : body[i] = "."}
        dot == IF dots = {} THEN Len(body) + 1 ELSE CHOOSE i \in dots : TRUE
        ip == SubSeq(body, 1, dot - 1)
        fp == SubSeq(body, dot + 1, Len(body))
    IN  IF Cardinality(dots) <= 1 /\ IsDigits(ip) /\ IsDigits(fp)
           /\ Len(ip) + Len(fp) >= 1
        THEN [exc |-> "none",
              v |-> (IF neg THEN -1 ELSE 1) * (IntPart(ip) + FracPart(fp, Scale \div 10))]
        ELSE [exc |-> "ValueError", v |-> 0]

\* float(x): the number, or the exception float raises
ToFloat(x) ==
    CASE x.kind = "num" -> [exc |-> "none", v |-> x.v]
      [] x.kind = "str" -> ParseFloat(x.s)
      [] x.kind = "huge" -> [exc |-> "OverflowError", v |-> 0]
      [] OTHER -> [exc |-> "TypeError", v |-> 0]

----------------------------------------------------------------------------
(* Raw observations *)

\* an observation: a mapping with the three magnitude fields, or no mapping
Obs(elab, tr, val) ==
    [ismap |-> TRUE, resultat_obs_elab |-> elab, resultat_obs |-> tr, valeur |-> val]

NotAMapping ==
    [ismap |-> FALSE, resultat_obs_elab |-> Absent, resultat_obs |-> Absent,
     valeur |-> Absent]

UnitThreshold == 1000

\* `'f' in obs and obs['f']` of lines 116-120
Usable(x) == x.kind # "absent" /\ Truthy(x)

\* lines 115-121: the field whose value the observation contributes, None
\* when `value` stays None
Picked(obs) ==
    IF Usable(obs.resultat_obs_elab) THEN obs.resultat_obs_elab
    ELSE IF Usable(obs.resultat_obs) THEN obs.resultat_obs
    ELSE IF Usable(obs.valeur) THEN obs.valeur
    ELSE None

\* the unit test of line 125 with >= for >
NormalizeInclusive(v) == IF v >= Fix(UnitThreshold) THEN v \div 1000 ELSE v

\* lines 125-126: litres per second to cubic metres per second
Normalize(v) == IF v > Fix(UnitThreshold) THEN v \div 1000 ELSE v

\* one iteration of the loop of _clean_historical_data: the value the
\* observation contributes and the exception that leaves the iteration
CleanOne(obs) ==
    IF ~obs.ismap THEN [exc |-> "TypeError", keep |-> FALSE, v |-> 0]
    ELSE IF Picked(obs) = None THEN [exc |-> "none", keep |-> FALSE, v |-> 0]
    ELSE The({IF f.exc # "none" THEN [exc |-> f.exc, keep |-> FALSE, v |-> 0]
              ELSE IF f.v > 0 THEN [exc |-> "none", keep |-> TRUE, v |-> Normalize(f.v)]
              ELSE [exc |-> "none", keep |-> FALSE, v |-> 0] :
              f \in {ToFloat(Picked(obs))}})

\* the exceptions the loop body catches and skips
CleanCaught == {"ValueError", "TypeError"}

RECURSIVE CleanFrom(_, _)
CleanFrom(data, acc) ==
    IF data = <<>> THEN [exc |-> "none", values |-> acc]
    ELSE LET c == CleanOne(Head(data))
         IN  IF c.exc \in CleanCaught THEN CleanFrom(Tail(data), acc)
             ELSE IF c.exc # "none" THEN [exc |-> c.exc, values |-> <<>>]
             ELSE CleanFrom(Tail(data), IF c.keep THEN Append(acc, c.v) ELSE acc)

\* ForecastService._clean_historical_data: the clean series, or the
\* exception that escapes it
_clean_historical_data(data) == CleanFrom(data, <<>>)

----------------------------------------------------------------------------
(* Horizons: an int, or a value range() and list repetition reject *)

IntHours(n) == [t |-> "int", n |-> n]

FloatHours(n) == [t |-> "float", n |-> n]     \* the float n + 0.5

\* list(range(hours)), or the TypeError of a horizon that is no int
Range(h) ==
    IF h.t = "int"
    THEN [exc |-> "none", idx |-> [i \in 1..Max(0, h.n) |-> i - 1]]
    ELSE [exc |-> "TypeError", idx |-> <<>>]

Ok(values) == [exc |-> "none", values |-> values]

Raise(exc) == [exc |-> exc, values |-> <<>>]

\* [x] * hours, data[-1] read first
Repeat(data, h) ==
    IF data = <<>> THEN Raise("IndexError")
    ELSE IF Range(h).exc # "none" THEN Raise(Range(h).exc)
    ELSE Ok([i \in DOMAIN Range(h).idx |-> data[Len(data)]])

----------------------------------------------------------------------------
(* The three forecast algorithms *)

TrendWindow == 7

\* _simple_trend_forecast without the max(0, ...) of line 148
_simple_trend_forecast_unclamped(data, h) ==
    IF Len(data) < 2 THEN Repeat(data, h)
    ELSE IF Range(h).exc # "none" THEN Raise(Range(h).exc)
    ELSE Ok([k \in DOMAIN Range(h).idx |->
               data[Len(data)]
                 + ((LastN(data, TrendWindow)[Len(LastN(data, TrendWindow))]
                       - LastN(data, TrendWindow)[1]) \div Len(LastN(data, TrendWindow)))
                   * (Range(h).idx[k] + 1)])

\* ForecastService._simple_trend_forecast
_simple_trend_forecast(data, h) ==
    IF Len(data) < 2 THEN Repeat(data, h)
    ELSE LET recent_data == IF Len(data) >= TrendWindow THEN LastN(data, TrendWindow)
                            ELSE data
             trend == (recent_data[Len(recent_data)] - recent_data[1])
                          \div Len(recent_data)
             last_value == data[Len(data)]
             r == Range(h)
         IN  IF r.exc # "none" THEN Raise(r.exc)
             ELSE Ok([k \in DOMAIN r.idx |->
                        Max(0, last_value + trend * (r.idx[k] + 1))])

AverageWindow == 7

\* 0.95 ** i
RECURSIVE DecayFactor(_)
DecayFactor(i) == IF i = 0 THEN Fix(1) ELSE Mul(DecayFactor(i - 1), (95 * Scale) \div 100)

\* ForecastService._moving_average_forecast
_moving_average_forecast(data, h) ==
    LET window_size == Min(AverageWindow, Len(data))
        recent_data == LastN(data, window_size)
    IN  IF recent_data = <<>> THEN Raise("StatisticsError")
        ELSE LET avg_value == Mean(recent_data)
                 bound == Len(recent_data) > 1      \* is `variance` assigned
                 variance == IF bound THEN Stdev(recent_data) ELSE 0
                 trend_factor ==
                     IF bound /\ variance > 0
                     THEN Div(recent_data[Len(recent_data)] - avg_value, variance)
                     ELSE 0
                 r == Range(h)
             IN  IF r.exc # "none" THEN Raise(r.exc)
                 ELSE IF ~bound /\ r.idx # <<>> THEN Raise("UnboundLocalError")
                 ELSE Ok([k \in DOMAIN r.idx |->
                            Max(0, avg_value
                                   + Mul(Mul(trend_factor, variance),
                                         DecayFactor(r.idx[k])))])

\* ForecastService._linear_regression_forecast
_linear_regression_forecast(data, h) ==
    LET n == Len(data)
    IN  IF n < 2 THEN Repeat(data, h)
        ELSE LET x_values == [i \in 1..n |-> Fix(i - 1)]
                 x_mean == Mean(x_values)
                 y_mean == Mean(data)
                 numerator == Sum([i \in 1..n |->
                                     Mul(x_values[i] - x_mean, data[i] - y_mean)])
                 denominator == Sum([i \in 1..n |->
                                       Mul(x_values[i] - x_mean, x_values[i] - x_mean)])
             IN  IF denominator = 0 THEN Repeat(<<y_mean>>, h)
                 ELSE LET slope == Div(numerator, denominator)
                          intercept == y_mean - Mul(slope, x_mean)
                          r == Range(h)
                      IN  IF r.exc # "none" THEN Raise(r.exc)
                          ELSE Ok([k \in DOMAIN r.idx |->
                                     Max(0, Mul(slope, Fix(n + r.idx[k])) + intercept)])

----------------------------------------------------------------------------
(* The uncertainty estimator *)

BoundsWindow == 24

\* line 232 without the growth per hour
UncertaintyFactorConstant(i) == Fix(1)

\* line 232: 1 + (i * 0.05), i counted from 0
UncertaintyFactor(i) == Fix(1) + i * ((5 * Scale) \div 100)

\* _calculate_min_max_bounds with line 236 read as max_val = variation
_calculate_min_max_bounds_no_base(data, forecast_values) ==
    LET cv == IF Len(data) >= 2 /\ Mean(LastN(data, BoundsWindow)) > 0
              THEN Div(Stdev(LastN(data, BoundsWindow)), Mean(LastN(data, BoundsWindow)))
              ELSE (2 * Scale) \div 10
        variation(i) ==
            Mul(Mul(forecast_values[i], cv), UncertaintyFactor(i - 1))
    IN  [min |-> [i \in DOMAIN forecast_values |->
                    Max(0, forecast_values[i] - variation(i))],
         max |-> [i \in DOMAIN forecast_values |-> variation(i)]]

\* ForecastService._calculate_min_max_bounds: the parallel min and max lists
_calculate_min_max_bounds(data, forecast_values) ==
    IF Len(data) < 2
    THEN [min |-> [i \in DOMAIN forecast_values |->
                     Mul(forecast_values[i], (8 * Scale) \div 10)],
          max |-> [i \in DOMAIN forecast_values |->
                     Mul(forecast_values[i], (12 * Scale) \div 10)]]
    ELSE LET recent_data == IF Len(data) >= BoundsWindow THEN LastN(data, BoundsWindow)
                            ELSE data
             cv == IF Len(recent_data) > 1
                   THEN IF Mean(recent_data) > 0
                        THEN Div(Stdev(recent_data), Mean(recent_data))
                        ELSE (2 * Scale) \div 10
                   ELSE (2 * Scale) \div 10
             variation(i) ==
                 Mul(Mul(forecast_values[i], cv), UncertaintyFactor(i - 1))
         IN  [min |-> [i \in DOMAIN forecast_values |->
                         Max(0, forecast_values[i] - variation(i))],
              max |-> [i \in DOMAIN forecast_values |->
                         forecast_values[i] + variation(i)]]

----------------------------------------------------------------------------
(* The registry and the orchestrator *)

\* algorithm_name: a str, or Unset for Python's None
Unset == "None"

\* bool(algorithm_name)
NameGiven(name) == name # Unset /\ name # ""

\* set_algorithm without its membership test
set_algorithm_unchecked(sel, algs, name) ==
    [exc |-> "none", current_algorithm |-> name]

\* ForecastService.set_algorithm: the exception raised and the selection left
set_algorithm(sel, algs, name) ==
    IF name \notin DOMAIN algs
    THEN [exc |-> "ValueError", current_algorithm |-> sel]
    ELSE [exc |-> "none", current_algorithm |-> name]

\* the dispatch of generate_forecast on the current selection
Dispatch(sel, clean_data, h) ==
    IF sel = "simple"
    THEN [branch |-> "simple", out |-> _simple_trend_forecast(clean_data, h)]
    ELSE IF sel = "moving_average"
    THEN [branch |-> "moving_average", out |-> _moving_average_forecast(clean_data, h)]
    ELSE IF sel = "linear_regression"
    THEN [branch |-> "linear_regression",
          out |-> _linear_regression_forecast(clean_data, h)]
    ELSE [branch |-> "fallback", out |-> _moving_average_forecast(clean_data, h)]

\* the least of three lengths: zip stops at the shortest list
ZipLen(a, b, c) == Min(Len(a), Min(Len(b), Len(c)))

\* the loop of lines 83-91 with timedelta(hours=i) for timedelta(hours=i+1)
PrevisionsFromCallTime(forecast_values, bounds, label, start_time) ==
    [i \in 1..ZipLen(forecast_values, bounds.min, bounds.max) |->
       [date_prevision |-> start_time + i - 1,
        valeur_prevue |-> Round3(forecast_values[i]),
        valeur_min |-> Round3(bounds.min[i]),
        valeur_max |-> Round3(bounds.max[i]),
        algorithme |-> label]]

\* the loop of generate_forecast that assembles the forecast records; time
\* is counted in hours
Previsions(forecast_values, bounds, label, start_time) ==
    [i \in 1..ZipLen(forecast_values, bounds.min, bounds.max) |->
       [date_prevision |-> start_time + i,
        valeur_prevue |-> Round3(forecast_values[i]),
        valeur_min |-> Round3(bounds.min[i]),
        valeur_max |-> Round3(bounds.max[i]),
        algorithme |-> label]]

\* what a call leaves with its caller; `raised` is the exception that escaped
\* the call, `stages` the steps the call ran and `branch` the dispatch branch
NoCall ==
    [op |-> "none", algorithm_name |-> Unset, selection_before |-> "",
     called_at |-> 0, raised |-> "none", success |-> FALSE, error |-> "",
     fault |-> "none", stages |-> <<>>, branch |-> "none",
     algorithme_utilise |-> "", nombre_previsions |-> 0,
     periode_prevision |-> IntHours(0), donnees_historiques_utilisees |-> 0,
     previsions |-> <<>>, clean_values |-> <<>>, min |-> <<>>, max |-> <<>>]

Failure(error, fault, stages, branch) ==
    [NoCall EXCEPT !.error = error, !.fault = fault, !.stages = stages,
                   !.branch = branch]

\* the test of line 60 with 1 for 2
InsufficientOffByOne(clean_data) == Len(clean_data) < 1

\* line 60: too few usable samples to forecast
Insufficient(clean_data) == Len(clean_data) < 2

\* an except clause as narrow as the cleaner's
CaughtLikeCleaner(exc) == exc \in {"ValueError", "TypeError"}

\* the except clause of generate_forecast: `except Exception`
Caught(exc) == TRUE

\* lines 79-100 of generate_forecast: the records and the dict returned
Assemble(sel, algs, clean_data, h, start_time, d, min_max_data) ==
    LET st == <<"clean", "forecast", "bounds", "assemble">>
    IN  IF sel \notin DOMAIN algs
        THEN [exc |-> "KeyError", ret |-> Failure("", "KeyError", st, d.branch)]
        ELSE The({[exc |-> "none",
                   ret |-> [NoCall EXCEPT
                              !.success = TRUE,
                              !.stages = st,
                              !.branch = d.branch,
                              !.algorithme_utilise = algs[sel],
                              !.nombre_previsions = Len(previsions),
                              !.periode_prevision = h,
                              !.donnees_historiques_utilisees = Len(clean_data),
                              !.previsions = previsions]] :
                  previsions \in {Previsions(d.out.values, min_max_data, algs[sel],
                                             start_time)}})

\* lines 66-77 of generate_forecast: the forecast of the selected algorithm,
\* then its bounds
Forecast(sel, algs, clean_data, h, start_time) ==
    The({IF d.out.exc # "none"
         THEN [exc |-> d.out.exc,
               ret |-> Failure("", d.out.exc, <<"clean", "forecast">>, d.branch)]
         ELSE The({Assemble(sel, algs, clean_data, h, start_time, d, min_max_data) :
                   min_max_data \in
                       {_calculate_min_max_bounds(clean_data, d.out.values)}}) :
         d \in {Dispatch(sel, clean_data, h)}})

\* the try block of generate_forecast, lines 56-100: the dict returned and
\* the exception that leaves the block
TryBlock(sel, algs, data, h, start_time) ==
    The({IF clean.exc # "none"
         THEN [exc |-> clean.exc, ret |-> Failure("", clean.exc, <<"clean">>, "none")]
         ELSE IF Insufficient(clean.values)
         THEN [exc |-> "none",
               ret |-> Failure("InsufficientData", "none", <<"clean">>, "none")]
         ELSE Forecast(sel, algs, clean.values, h, start_time) :
         clean \in {_clean_historical_data(data)}})

\* ForecastService.generate_forecast after the override, lines 50-106: the
\* dict returned, or the exception that escapes
Orchestrate(sel, algs, data, h, start_time) ==
    IF data = <<>>
    THEN Failure("NoHistoricalData", "none", <<>>, "none")
    ELSE The({IF t.exc = "none" THEN t.ret
              ELSE IF Caught(t.exc) THEN [t.ret EXCEPT !.error = "InternalFault"]
              ELSE [t.ret EXCEPT !.raised = t.exc] :
              t \in {TryBlock(sel, algs, data, h, start_time)}})

----------------------------------------------------------------------------
(* The callers' data *)

\* the observations a caller appends one at a time
RecPool ==
    { Obs(Num(Fix(1)), Num(Fix(3)), Absent),
      Obs(Absent, Num(Fix(3)), Absent),
      Obs(Absent, Absent, Str(<<"a", "b", "c">>)),
      Obs(Huge, Absent, Absent) }

\* the observation an archive is made of
ArchiveObs == Obs(Num(Fix(2)), Absent, Absent)

Archive == [i \in 1..BoundsWindow |-> ArchiveObs]

\* the observations of a batch that were appended one at a time
FreeLen(data) == IF Len(data) >= BoundsWindow THEN Len(data) - BoundsWindow ELSE Len(data)

HoursPool == {IntHours(n) : n \in 0..MaxHours} \cup {FloatHours(2)}

NamePool == {"simple", "moving_average", "linear_regression", "arima", ""}

----------------------------------------------------------------------------
(* The state machine *)

\* ForecastService.__init__: the registry
Registry ==
    [a \in {"simple", "moving_average", "linear_regression"} |->
       CASE a = "simple" -> "Tendance Simple"
         [] a = "moving_average" -> "Moyenne Mobile (7 jours)"
         [] a = "linear_regression" -> "Regression Lineaire"]

\* the request threads that share the service instance
Threads == {"t1", "t2"}

\* the frame of a thread that is not inside generate_forecast
NoFrame ==
    [pc |-> "idle", algorithm_name |-> Unset, clean_data |-> <<>>,
     branch |-> "none", forecast_values |-> <<>>,
     min_max_data |-> [min |-> <<>>, max |-> <<>>], start_time |-> 0,
     previsions |-> <<>>, ret |-> NoCall]

Init ==
    /\ current_algorithm = "moving_average"
    /\ algorithms = Registry
    /\ historical_data = <<>>
    /\ hours = IntHours(1)
    /\ now = 0
    /\ result = NoCall
    /\ frames = [t \in Threads |-> NoFrame]

\* a caller calls set_algorithm(name)
SetAlgorithm(name) ==
    LET r == set_algorithm(current_algorithm, algorithms, name)
    IN  /\ current_algorithm' = r.current_algorithm
        /\ result' = [NoCall EXCEPT !.op = "set_algorithm",
                                    !.algorithm_name = name,
                                    !.selection_before = current_algorithm,
                                    !.called_at = now,
                                    !.raised = r.exc]
        /\ UNCHANGED <<frames, algorithms, historical_data, hours, now>>

\* generate_forecast with the test of line 50 moved above the override of
\* lines 47-48
generate_forecast_checks_first(sel, algs, data, h, name, start_time) ==
    LET r == IF NameGiven(name) /\ data # <<>>
             THEN set_algorithm(sel, algs, name)
             ELSE [exc |-> "none", current_algorithm |-> sel]
    IN  [current_algorithm |-> r.current_algorithm,
         ret |-> IF r.exc # "none" THEN [NoCall EXCEPT !.raised = r.exc]
                 ELSE Orchestrate(r.current_algorithm, algs, data, h, start_time)]

\* ForecastService.generate_forecast: the selection it leaves and what it
\* returns or raises; the override of lines 47-48 comes first
generate_forecast(sel, algs, data, h, name, start_time) ==
    LET r == IF NameGiven(name)
             THEN set_algorithm(sel, algs, name)
             ELSE [exc |-> "none", current_algorithm |-> sel]
    IN  [current_algorithm |-> r.current_algorithm,
         ret |-> IF r.exc # "none" THEN [NoCall EXCEPT !.raised = r.exc]
                 ELSE Orchestrate(r.current_algorithm, algs, data, h, start_time)]

\* a caller calls generate_forecast(historical_data, hours, name)
GenerateForecast(name) ==
    /\ \E g \in {generate_forecast(current_algorithm, algorithms, historical_data,
                                   hours, name, now)} :
          /\ current_algorithm' = g.current_algorithm
          /\ result' = [g.ret EXCEPT !.op = "generate_forecast",
                                     !.algorithm_name = name,
                                     !.selection_before = current_algorithm,
                                     !.called_at = now]
    /\ UNCHANGED <<frames, algorithms, historical_data, hours, now>>

\* a new observation reaches the caller, who drops the answer of the old batch
Observe(obs) ==
    /\ FreeLen(historical_data) < MaxObs
    /\ historical_data' = Append(historical_data, obs)
    /\ result' = NoCall
    /\ UNCHANGED <<frames, current_algorithm, algorithms, hours, now>>

\* the caller loads the archive that precedes its observations
Backfill ==
    /\ Len(historical_data) < BoundsWindow
    /\ historical_data' = Archive \o historical_data
    /\ result' = NoCall
    /\ UNCHANGED <<frames, current_algorithm, algorithms, hours, now>>

\* the caller picks another horizon
ChooseHours(h) ==
    /\ h # hours
    /\ hours' = h
    /\ result' = NoCall
    /\ UNCHANGED <<frames, current_algorithm, algorithms, historical_data, now>>

\* time passes
Tick ==
    /\ now < MaxClock
    /\ now' = now + 1
    /\ UNCHANGED <<frames, current_algorithm, algorithms, historical_data, hours, result>>

Next ==
    \/ \E name \in NamePool : SetAlgorithm(name)
    \/ \E name \in NamePool \cup {Unset} : GenerateForecast(name)
    \/ \E obs \in RecPool : Observe(obs)
    \/ Backfill
    \/ \E h \in HoursPool : ChooseHours(h)
    \/ Tick

Spec == Init /\ [][Next]_vars

----------------------------------------------------------------------------
(* The HTTP routes of flood_data.py on the shared service instance *)

\* a query parameter the request does not carry
NoParam == "absent"

\* request.args.get(key, default)
ArgsGet(param, default) == IF param = NoParam THEN default ELSE param

\* int(request.args.get('hours', 24)) on the text of the horizon: the text
\* of a float raises ValueError
ParseHours(h) ==
    IF h.t = "int" THEN [exc |-> "none", hours |-> h]
    ELSE [exc |-> "ValueError", hours |-> h]

\* the route get_forecast: the selection it leaves and the body it answers;
\* `error` names the handler that answered (400, 404, 500) when the service
\* did not
get_forecast(sel, algs, data, h, param, start_time) ==
    IF ParseHours(h).exc = "ValueError"
    THEN [current_algorithm |-> sel,
          ret |-> Failure("InvalidParameter", "ValueError", <<>>, "none")]
    ELSE IF data = <<>>
    THEN [current_algorithm |-> sel,
          ret |-> Failure("NotFound", "none", <<>>, "none")]
    ELSE The({[current_algorithm |-> g.current_algorithm,
               ret |-> IF g.ret.raised = "ValueError"
                       THEN Failure("InvalidParameter", "ValueError", <<>>, "none")
                       ELSE IF g.ret.raised # "none"
                       THEN Failure("GenerationError", g.ret.raised, <<>>, "none")
                       ELSE g.ret] :
              g \in {generate_forecast(sel, algs, data, ParseHours(h).hours,
                                       ArgsGet(param, "simple"), start_time)}})

\* GET /forecast/<code_site>, with or without ?algorithm=
GetForecast(param) ==
    /\ \E g \in {get_forecast(current_algorithm, algorithms, historical_data,
                              hours, param, now)} :
          /\ current_algorithm' = g.current_algorithm
          /\ result' = [g.ret EXCEPT !.op = "get_forecast",
                                     !.algorithm_name = param,
                                     !.selection_before = current_algorithm,
                                     !.called_at = now]
    /\ UNCHANGED <<frames, algorithms, historical_data, hours, now>>

\* POST /algorithms/<algorithm_name>: the ValueError of set_algorithm is
\* answered with 400
PostAlgorithm(name) ==
    /\ \E r \in {set_algorithm(current_algorithm, algorithms, name)} :
          /\ current_algorithm' = r.current_algorithm
          /\ result' = [NoCall EXCEPT
                          !.op = "post_algorithm",
                          !.algorithm_name = name,
                          !.selection_before = current_algorithm,
                          !.called_at = now,
                          !.success = (r.exc = "none"),
                          !.error = IF r.exc = "none" THEN "" ELSE "InvalidParameter",
                          !.fault = r.exc]
    /\ UNCHANGED <<frames, algorithms, historical_data, hours, now>>

NextRoutes ==
    \/ \E param \in NamePool \cup {NoParam} : GetForecast(param)
    \/ \E name \in NamePool \ {""} : PostAlgorithm(name)
    \/ \E obs \in RecPool : Observe(obs)
    \/ \E h \in HoursPool : ChooseHours(h)

SpecRoutes == Init /\ [][NextRoutes]_vars

----------------------------------------------------------------------------
(* generate_forecast step by step, on threads that share the service       *)
(* instance: one step per read or write of self.current_algorithm, with    *)
(* the computation on locals that follows it                               *)

\* a frame that left generate_forecast with `ret`
Returned_(f, name, ret) ==
    [f EXCEPT !.pc = "returned",
              !.ret = [ret EXCEPT !.op = "generate_forecast",
                                  !.algorithm_name = name]]

\* lines 50-64 on the locals of a frame: the data checks and the cleaning
AfterOverride(f, data) ==
    IF data = <<>>
    THEN Returned_(f, f.algorithm_name,
                   Failure("NoHistoricalData", "none", <<>>, "none"))
    ELSE The({IF clean.exc # "none"
              THEN IF Caught(clean.exc)
                   THEN Returned_(f, f.algorithm_name,
                                  Failure("InternalFault", clean.exc, <<"clean">>,
                                          "none"))
                   ELSE Returned_(f, f.algorithm_name,
                                  [Failure("", clean.exc, <<"clean">>, "none")
                                     EXCEPT !.raised = clean.exc])
              ELSE IF Insufficient(clean.values)
              THEN Returned_(f, f.algorithm_name,
                             Failure("InsufficientData", "none", <<"clean">>,
                                     "none"))
              ELSE [f EXCEPT !.pc = "cmp_simple", !.clean_data = clean.values] :
              clean \in {_clean_historical_data(data)}})

\* the identifier a comparison of lines 67-71 tests, and the comparison
\* that follows a failed one
Compared(pc) ==
    CASE pc = "cmp_simple" -> "simple"
      [] pc = "cmp_moving_average" -> "moving_average"
      [] pc = "cmp_linear_regression" -> "linear_regression"

NextCompare(pc) ==
    CASE pc = "cmp_simple" -> "cmp_moving_average"
      [] pc = "cmp_moving_average" -> "cmp_linear_regression"
      [] pc = "cmp_linear_regression" -> "else"

\* lines 68-80 on the locals of a frame, once a branch is taken: the
\* forecast of branch `sel`, its bounds and the clock
Computed(f, sel, h, clock) ==
    The({IF d.out.exc # "none"
         THEN IF Caught(d.out.exc)
              THEN Returned_(f, f.algorithm_name,
                             Failure("InternalFault", d.out.exc,
                                     <<"clean", "forecast">>, d.branch))
              ELSE Returned_(f, f.algorithm_name,
                             [Failure("", d.out.exc, <<"clean", "forecast">>,
                                      d.branch) EXCEPT !.raised = d.out.exc])
         ELSE [f EXCEPT !.pc = "loop",
                        !.branch = d.branch,
                        !.forecast_values = d.out.values,
                        !.min_max_data =
                            _calculate_min_max_bounds(f.clean_data, d.out.values),
                        !.start_time = clock] :
         d \in {Dispatch(sel, f.clean_data, h)}})

\* the number of turns of the loop of line 83
Turns(f) == ZipLen(f.forecast_values, f.min_max_data.min, f.min_max_data.max)

\* thread t enters generate_forecast(historical_data, hours, name)
Call(t, name) ==
    /\ frames[t].pc = "idle"
    /\ frames' = [frames EXCEPT ![t] = [NoFrame EXCEPT !.pc = "override",
                                                       !.algorithm_name = name]]
    /\ UNCHANGED <<current_algorithm, algorithms, historical_data, hours, now,
                   result>>

\* lines 47-64: the override writes the selection, then the data is checked
\* and cleaned
Override(t) ==
    /\ frames[t].pc = "override"
    /\ \E f \in {frames[t]} :
       \E r \in {IF NameGiven(f.algorithm_name)
                  THEN set_algorithm(current_algorithm, algorithms, f.algorithm_name)
                  ELSE [exc |-> "none", current_algorithm |-> current_algorithm]} :
          /\ current_algorithm' = r.current_algorithm
          /\ frames' = [frames EXCEPT ![t] =
                          IF r.exc # "none"
                          THEN Returned_(f, f.algorithm_name,
                                         [NoCall EXCEPT !.raised = r.exc])
                          ELSE AfterOverride(f, historical_data)]
    /\ UNCHANGED <<algorithms, historical_data, hours, now, result>>

\* lines 67-80: one comparison of self.current_algorithm; the branch taken
\* computes the forecast and its bounds
Compare(t) ==
    /\ frames[t].pc \in {"cmp_simple", "cmp_moving_average",
                         "cmp_linear_regression"}
    /\ \E f \in {frames[t]} :
          frames' = [frames EXCEPT ![t] =
                       IF current_algorithm = Compared(f.pc)
                       THEN Computed(f, Compared(f.pc), hours, now)
                       ELSE IF NextCompare(f.pc) = "else"
                       THEN Computed(f, "", hours, now)
                       ELSE [f EXCEPT !.pc = NextCompare(f.pc)]]
    /\ UNCHANGED <<current_algorithm, algorithms, historical_data, hours, now,
                   result>>

\* lines 83-91: one turn of the loop; line 90 reads the selection for the
\* label of the record
Point(t) ==
    /\ frames[t].pc = "loop"
    /\ Len(frames[t].previsions) < Turns(frames[t])
    /\ current_algorithm \in DOMAIN algorithms
    /\ \E f \in {frames[t]} :
          frames' = [frames EXCEPT ![t] =
                       [f EXCEPT !.previsions =
                           Append(f.previsions,
                                  Previsions(f.forecast_values, f.min_max_data,
                                             algorithms[current_algorithm],
                                             f.start_time)[Len(f.previsions) + 1])]]
    /\ UNCHANGED <<current_algorithm, algorithms, historical_data, hours, now,
                   result>>

\* lines 93-100: the dict returned; line 95 reads the selection for the
\* label of the result
Return(t) ==
    /\ frames[t].pc = "loop"
    /\ Len(frames[t].previsions) = Turns(frames[t])
    /\ current_algorithm \in DOMAIN algorithms
    /\ \E f \in {frames[t]} :
          frames' = [frames EXCEPT ![t] =
                       Returned_(f, f.algorithm_name,
                           [NoCall EXCEPT
                              !.success = TRUE,
                              !.stages = <<"clean", "forecast", "bounds", "assemble">>,
                              !.branch = f.branch,
                              !.algorithme_utilise = algorithms[current_algorithm],
                              !.nombre_previsions = Len(f.previsions),
                              !.periode_prevision = hours,
                              !.donnees_historiques_utilisees = Len(f.clean_data),
                              !.previsions = f.previsions])]
    /\ UNCHANGED <<current_algorithm, algorithms, historical_data, hours, now,
                   result>>

\* a thread outside generate_forecast calls set_algorithm(name)
Select(name) ==
    /\ current_algorithm' =
           set_algorithm(current_algorithm, algorithms, name).current_algorithm
    /\ UNCHANGED <<algorithms, historical_data, hours, now, result, frames>>

\* the identifiers the threads pass: none, the registered ones, an unknown one
OverridePool == {Unset, "simple", "moving_average", "linear_regression", "arima"}

\* the observations every thread forecasts from
SharedBatch == << Obs(Num(Fix(1)), Absent, Absent), Obs(Num(Fix(3)), Absent, Absent) >>

InitShared ==
    /\ current_algorithm = "moving_average"
    /\ algorithms = Registry
    /\ historical_data = SharedBatch
    /\ hours = IntHours(1)
    /\ now = 0
    /\ result = NoCall
    /\ frames = [t \in Threads |-> NoFrame]

NextShared ==
    \/ \E t \in Threads, name \in OverridePool : Call(t, name)
    \/ \E t \in Threads : Override(t)
    \/ \E t \in Threads : Compare(t)
    \/ \E t \in Threads : Point(t)
    \/ \E t \in Threads : Return(t)
    \/ \E name \in NamePool : Select(name)

SpecShared == InitShared /\ [][NextShared]_vars

----------------------------------------------------------------------------
(* The sample cleaner on its own, called on batches of any shape *)

\* the batch of section 8 of the specification: values 5, 0, -3, "abc", 7
ExampleBatch ==
    << Obs(Absent, Absent, Num(Fix(5))), Obs(Absent, Absent, Num(0)),
       Obs(Absent, Absent, Num(Fix(-3))), Obs(Absent, Absent, Str(<<"a", "b", "c">>)),
       Obs(Absent, Absent, Num(Fix(7))) >>

\* the values a field is given
FieldPool ==
    { Num(Fix(5)), Num(0), Num(Fix(-3)), Num(Fix(500)), Num(Fix(1000)),
      Num(Fix(1000) + 1000), Num(Fix(1500)), None, Huge, Obj,
      Str(<<>>), Str(<<"0">>), Str(<<"a", "b", "c">>), Str(<<"1", "5", "0", "0">>),
      Str(<<"-", "2", ".", "5">>), Str(<<"7", ".", "2", "5">>) }

\* what a higher-priority field holds when a lower one holds a good value
ShadowPool == { Absent, None, Num(0), Num(Fix(-3)), Str(<<>>), Str(<<"0">>),
                Str(<<"a", "b", "c">>), Num(Fix(5)) }

CleanPool ==
    {Obs(x, Absent, Absent) : x \in FieldPool}
        \cup {Obs(Absent, x, Absent) : x \in {Num(Fix(5)), Num(0)}}
        \cup {Obs(x, Num(Fix(7)), Absent) : x \in ShadowPool}
        \cup {Obs(Absent, x, Num(Fix(9))) : x \in ShadowPool}
        \cup {Obs(x, Absent, Num(Fix(9))) : x \in ShadowPool}
        \cup {NotAMapping}

\* an observation of any shape joins the batch
Receive(obs) ==
    /\ Len(historical_data) < MaxBatch
    /\ historical_data' = Append(historical_data, obs)
    /\ result' = NoCall
    /\ UNCHANGED <<frames, current_algorithm, algorithms, hours, now>>

\* the example batch is handed over whole
ReceiveExample ==
    /\ historical_data = <<>>
    /\ historical_data' = ExampleBatch
    /\ result' = NoCall
    /\ UNCHANGED <<frames, current_algorithm, algorithms, hours, now>>

\* a caller calls _clean_historical_data(historical_data)
CleanHistoricalData ==
    /\ result.op = "none"
    /\ \E c \in {_clean_historical_data(historical_data)} :
          result' = [NoCall EXCEPT !.op = "_clean_historical_data",
                                   !.raised = c.exc,
                                   !.clean_values = c.values]
    /\ UNCHANGED <<frames, current_algorithm, algorithms, historical_data, hours, now>>

NextCleaner ==
    \/ \E obs \in CleanPool : Receive(obs)
    \/ ReceiveExample
    \/ CleanHistoricalData

SpecCleaner == Init /\ [][NextCleaner]_vars

----------------------------------------------------------------------------
(* The uncertainty estimator on its own, called on a constant forecast *)

\* the values a constant forecast repeats
PredictedPool == {0, Fix(1), Fix(3), Fix(1) + 2345}

\* a caller calls _calculate_min_max_bounds(clean series of its batch,
\* [predicted] * hours)
CalculateMinMaxBounds(predicted) ==
    /\ result.op = "none"
    /\ hours.t = "int"
    /\ \E c \in {_clean_historical_data(historical_data)} :
          /\ c.exc = "none"
          /\ \E b \in {_calculate_min_max_bounds(
                           c.values, [i \in 1..hours.n |-> predicted])} :
                result' = [NoCall EXCEPT !.op = "_calculate_min_max_bounds",
                                         !.clean_values = c.values,
                                         !.min = b.min,
                                         !.max = b.max]
    /\ UNCHANGED <<frames, current_algorithm, algorithms, historical_data, hours, now>>

NextEstimator ==
    \/ \E obs \in RecPool : Observe(obs)
    \/ Backfill
    \/ \E h \in HoursPool : ChooseHours(h)
    \/ \E predicted \in PredictedPool : CalculateMinMaxBounds(predicted)

SpecEstimator == Init /\ [][NextEstimator]_vars

----------------------------------------------------------------------------
(* Claims about the registry and the orchestrator, checked under Spec *)

\* the three identifiers ForecastService.__init__ registers
Registered == {"simple", "moving_average", "linear_regression"}

\* the last call was generate_forecast and returned a dict
Returned == result.op = "generate_forecast" /\ result.raised = "none"

\* the clean series of the caller's batch
CleanOfBatch == _clean_historical_data(historical_data)

\* C1: every call that selects an identifier outside the registry, through
\* set_algorithm or through the override of generate_forecast, raises
\* ValueError to its caller and leaves the selection as it was before the call
C1_UnknownSelectionRaises ==
    (/\ result.op \in {"set_algorithm", "generate_forecast"}
     /\ result.algorithm_name # Unset
     /\ result.algorithm_name \notin Registered)
    => (/\ result.raised = "ValueError"
        /\ current_algorithm = result.selection_before)

\* C1 reached: generate_forecast was called with the empty identifier
C1_EmptyOverrideCalled ==
    /\ result.op = "generate_forecast"
    /\ result.algorithm_name = ""

\* C2: the selection starts as moving_average and is always one of the three
\* registered identifiers, the registry never changes, and no call dispatches
\* through the fallback branch
C2_SelectionRegistered ==
    /\ current_algorithm = "moving_average"
    /\ [](/\ current_algorithm \in Registered
          /\ DOMAIN algorithms = Registered
          /\ algorithms = Registry
          /\ result.branch # "fallback")

\* C2 reached: a forecast was dispatched by an override that moved the
\* selection away from an earlier one
C2_DispatchedAfterSelecting ==
    /\ Returned
    /\ result.success
    /\ result.branch = "linear_regression"
    /\ result.selection_before = "simple"

\* C3: generate_forecast with no override or a registered override lets no
\* exception escape: it returns success with its forecast points, or a
\* failure with an error description, and a fault raised inside the call
\* becomes a failure
C3_AlwaysStructuredResult ==
    (/\ result.op = "generate_forecast"
     /\ result.algorithm_name \in Registered \cup {Unset})
    => (/\ result.raised = "none"
        /\ result.success => (result.error = ""
                              /\ result.nombre_previsions = Len(result.previsions))
        /\ ~result.success => (result.error # "" /\ result.previsions = <<>>)
        /\ result.fault # "none" => (~result.success /\ result.error = "InternalFault"))

\* C3 reached: a fault raised while cleaning was turned into a failure
C3_CleaningFaultReturned ==
    /\ Returned
    /\ result.algorithm_name \in Registered
    /\ result.fault = "OverflowError"
    /\ result.stages = <<"clean">>

\* C3 reached also for a fault raised by the forecast algorithm
C3_ForecastFaultReturned ==
    /\ Returned
    /\ result.fault = "TypeError"
    /\ result.stages = <<"clean", "forecast">>

\* C4: an empty batch, or a clean series of fewer than 2 elements, gives an
\* InsufficientData failure with no algorithm run, no bounds estimated and no
\* forecast point; success needs a clean series of at least 2 elements
C4_InsufficientData ==
    Returned =>
       /\ historical_data = <<>>
          => (/\ ~result.success
              /\ result.error = "NoHistoricalData"
              /\ result.stages = <<>>
              /\ result.previsions = <<>>)
       /\ (/\ historical_data # <<>>
           /\ CleanOfBatch.exc = "none"
           /\ Len(CleanOfBatch.values) < 2)
          => (/\ ~result.success
              /\ result.error = "InsufficientData"
              /\ result.stages = <<"clean">>
              /\ result.branch = "none"
              /\ result.previsions = <<>>)
       /\ result.success
          => (CleanOfBatch.exc = "none" /\ Len(CleanOfBatch.values) >= 2)

\* C4 reached: exactly one usable sample, linear regression selected
C4_OneSampleRegression ==
    /\ Returned
    /\ current_algorithm = "linear_regression"
    /\ CleanOfBatch.exc = "none"
    /\ Len(CleanOfBatch.values) = 1
    /\ Len(historical_data) = 2
    /\ result.error = "InsufficientData"

----------------------------------------------------------------------------
(* Claims about the sample cleaner, checked under SpecCleaner *)

\* the cleaner was called on the caller's batch
Cleaned == result.op = "_clean_historical_data"

\* the magnitude of an observation parses as a number strictly above zero
ParsesPositive(obs) ==
    /\ obs.ismap
    /\ Picked(obs) # None
    /\ ToFloat(Picked(obs)).exc = "none"
    /\ ToFloat(Picked(obs)).v > 0

\* v/1000 above 1000, v up to and including 1000
NormalizedValue(v) == IF v <= 1000 * Scale THEN v ELSE v \div 1000

\* the positions of the batch whose magnitude parses above zero
GoodAt(data) == {i \in 1..Len(data) : ParsesPositive(data[i])}

\* the magnitude of an observation is an int that float() cannot hold
Overflows(obs) == obs.ismap /\ Picked(obs) = Huge

C5_BoundaryCleaned ==
    /\ Cleaned
    /\ historical_data = <<Obs(Num(Fix(1000)), Absent, Absent),
                           Obs(Num(Fix(1000) + 1000), Absent, Absent)>>
    /\ result.clean_values = <<Fix(1000), Fix(1) + 1>>

\* the first field, in priority order, that is present and not None
FirstNonNull(obs) ==
    IF obs.resultat_obs_elab.kind \notin {"absent", "none"} THEN obs.resultat_obs_elab
    ELSE IF obs.resultat_obs.kind \notin {"absent", "none"} THEN obs.resultat_obs
    ELSE IF obs.valeur.kind \notin {"absent", "none"} THEN obs.valeur
    ELSE None

\* the first present, non-null field of the observation is no number
\* strictly above zero
FirstNonNullUnusable(obs) ==
    \/ ~obs.ismap
    \/ FirstNonNull(obs) = None
    \/ ToFloat(FirstNonNull(obs)).exc # "none"
    \/ ToFloat(FirstNonNull(obs)).v <= 0

\* C6: the value of an observation is taken from its first present, non-null
\* field: a batch whose observations all hold there a value that is not a
\* number above zero gives an empty clean series, whatever their
\* lower-priority fields hold
C6_FirstNonNullFieldDecides ==
    (/\ Cleaned
     /\ result.raised = "none"
     /\ \A i \in 1..Len(historical_data) : FirstNonNullUnusable(historical_data[i]))
    => result.clean_values = <<>>

\* C6 reached: an observation whose highest-priority field holds zero above
\* a good lower-priority value was cleaned
C6_ZeroAboveGoodValueCleaned ==
    /\ Cleaned
    /\ historical_data = <<Obs(Num(0), Num(Fix(7)), Absent)>>

----------------------------------------------------------------------------
(* Claims about the forecasts and their bounds, checked under Spec *)

\* the caller's batch cleans to at least 2 samples and its horizon is an
\* int of at least 1
Forecastable ==
    /\ CleanOfBatch.exc = "none"
    /\ Len(CleanOfBatch.values) >= 2
    /\ hours.t = "int"
    /\ hours.n >= 1

\* a forecast is exactly h values, none below zero
HorizonOfNonNegatives(f, h) ==
    /\ f.exc = "none"
    /\ Len(f.values) = h
    /\ \A i \in 1..Len(f.values) : f.values[i] >= 0

\* C7: on a clean series of at least 2 samples and a horizon h >= 1 each of
\* the three algorithms returns exactly h values, all >= 0, and a successful
\* generate_forecast carries exactly h points and counts h
C7_HorizonValuesNonNegative ==
    Forecastable =>
       /\ HorizonOfNonNegatives(_simple_trend_forecast(CleanOfBatch.values, hours),
                                hours.n)
       /\ HorizonOfNonNegatives(_moving_average_forecast(CleanOfBatch.values, hours),
                                hours.n)
       /\ HorizonOfNonNegatives(_linear_regression_forecast(CleanOfBatch.values, hours),
                                hours.n)
       /\ Returned =>
             /\ result.success
             /\ Len(result.previsions) = hours.n
             /\ result.nombre_previsions = hours.n
             /\ \A i \in 1..Len(result.previsions) :
                   result.previsions[i].valeur_prevue >= 0

\* C7 reached: a successful forecast over the longest horizon whose trend
\* runs into the clamp at zero
C7_ClampedForecastReturned ==
    /\ Returned
    /\ result.success
    /\ result.branch = "simple"
    /\ hours = IntHours(MaxHours)
    /\ result.previsions[MaxHours].valeur_prevue = 0
    /\ _simple_trend_forecast_unclamped(CleanOfBatch.values, hours).values[MaxHours] < 0

\* the forecast and the bounds behind the last result, before rounding
RawForecast == Dispatch(current_algorithm, CleanOfBatch.values, hours).out.values

RawBounds == _calculate_min_max_bounds(CleanOfBatch.values, RawForecast)

\* C8: every point of a successful result has min <= predicted <= max,
\* after rounding to 3 decimals and before it
C8_BoundsEnclosePrediction ==
    (Returned /\ result.success) =>
       /\ \A i \in 1..Len(result.previsions) :
             /\ result.previsions[i].valeur_min <= result.previsions[i].valeur_prevue
             /\ result.previsions[i].valeur_prevue <= result.previsions[i].valeur_max
       /\ Len(RawBounds.min) = Len(RawForecast)
       /\ Len(RawBounds.max) = Len(RawForecast)
       /\ \A i \in 1..Len(RawForecast) :
             /\ RawBounds.min[i] <= RawForecast[i]
             /\ RawForecast[i] <= RawBounds.max[i]
             /\ result.previsions[i].valeur_prevue = Round3(RawForecast[i])
             /\ result.previsions[i].valeur_min = Round3(RawBounds.min[i])
             /\ result.previsions[i].valeur_max = Round3(RawBounds.max[i])

\* C8 reached: a point strictly inside its band, and rounding changed a value
C8_StrictBandReturned ==
    /\ Returned
    /\ result.success
    /\ Len(result.previsions) >= 2
    /\ result.previsions[2].valeur_min < result.previsions[2].valeur_prevue
    /\ result.previsions[2].valeur_prevue < result.previsions[2].valeur_max
    /\ result.previsions[2].valeur_min > 0
    /\ \E i \in 1..Len(RawForecast) : Round3(RawBounds.max[i]) # RawBounds.max[i]

----------------------------------------------------------------------------
(* Claims about the uncertainty estimator, checked under SpecEstimator *)

\* the estimator was called on the clean series of the batch
Estimated == result.op = "_calculate_min_max_bounds"

\* the width of the band at step i
Width(i) == result.max[i] - result.min[i]

\* the samples of the history the estimator reads
HistoryWindow == LastN(result.clean_values, BoundsWindow)

\* the history has a spread: its window holds two different samples
Spread == \E i, j \in 1..Len(HistoryWindow) : HistoryWindow[i] # HistoryWindow[j]

\* the constant forecast is above zero
PositiveForecast == \E i \in 1..Len(result.max) : result.max[i] > 0

\* C9 as claimed: on a history of at least 2 samples the width of the band
\* of a constant forecast strictly increases with the step, for every
\* history and every predicted value; on a shorter history it is the same at
\* every step
C9_WidthStrictlyIncreases ==
    Estimated =>
       /\ Len(result.clean_values) >= 2
          => \A i \in 1..(Len(result.max) - 1) : Width(i) < Width(i + 1)
       /\ Len(result.clean_values) < 2
          => \A i \in 1..(Len(result.max) - 1) : Width(i) = Width(i + 1)

\* C9 as amended: on a history of at least 2 samples the width never
\* decreases with the step; it strictly increases when the history has a
\* spread and the predicted value is above zero, and is zero at every step
\* when the samples of the history are all equal or the predicted value is
\* zero; on a shorter history it is the same at every step
C9_WidthGrowsWithSpread ==
    Estimated =>
       /\ Len(result.min) = Len(result.max)
       /\ Len(result.clean_values) >= 2
          => /\ \A i \in 1..(Len(result.max) - 1) : Width(i) <= Width(i + 1)
             /\ (Spread /\ PositiveForecast)
                => \A i \in 1..(Len(result.max) - 1) : Width(i) < Width(i + 1)
             /\ ~(Spread /\ PositiveForecast)
                => \A i \in 1..Len(result.max) : Width(i) = 0
       /\ Len(result.clean_values) < 2
          => \A i \in 1..(Len(result.max) - 1) : Width(i) = Width(i + 1)

\* C9 reached: a band over the longest horizon on a history longer than the
\* estimator's window, with a spread
C9_WideningBandEstimated ==
    /\ Estimated
    /\ Len(result.clean_values) >= BoundsWindow
    /\ Spread
    /\ Len(result.max) = MaxHours
    /\ Width(1) > 0
    /\ Width(1) < Width(MaxHours)

\* C9 reached in the fallback branch: one sample of history
C9_FallbackBandEstimated ==
    /\ Estimated
    /\ Len(result.clean_values) = 1
    /\ Len(result.max) = MaxHours
    /\ Width(1) > 0

----------------------------------------------------------------------------
(* Claims about repeated calls, checked under Spec *)

\* the dict a call returned
Output(r) ==
    [success |-> r.success, error |-> r.error,
     algorithme_utilise |-> r.algorithme_utilise,
     nombre_previsions |-> r.nombre_previsions,
     periode_prevision |-> r.periode_prevision,
     donnees_historiques_utilisees |-> r.donnees_historiques_utilisees,
     previsions |-> r.previsions]

\* the dict a call returned, without the timestamps of its points
Untimed(r) ==
    [Output(r) EXCEPT !.previsions =
        [i \in 1..Len(r.previsions) |->
           [valeur_prevue |-> r.previsions[i].valeur_prevue,
            valeur_min |-> r.previsions[i].valeur_min,
            valeur_max |-> r.previsions[i].valeur_max,
            algorithme |-> r.previsions[i].algorithme]]]

\* this step is a generate_forecast call without override that follows
\* another one on the same batch and horizon, with the same selection
RepeatedCall ==
    /\ result.op = "generate_forecast"
    /\ result.algorithm_name = Unset
    /\ result.raised = "none"
    /\ result'.op = "generate_forecast"
    /\ result'.algorithm_name = Unset
    /\ result'.selection_before = result.selection_before
    /\ historical_data' = historical_data
    /\ hours' = hours

\* C10 as claimed: the second of two such calls returns the output of the
\* first: flag, label, counts and the same sequence of forecast points
C10_RepeatedCallSameOutput ==
    [][RepeatedCall => Output(result') = Output(result)]_vars

\* C10 as amended: the second call returns the flag, label, counts and the
\* predicted, min and max values and labels of the first; the timestamps of
\* its points are those of its own call time, one hour apart
C10_RepeatedCallSameValues ==
    [][RepeatedCall =>
         /\ Untimed(result') = Untimed(result)
         /\ \A i \in 1..Len(result'.previsions) :
               result'.previsions[i].date_prevision = result'.called_at + i]_vars

\* C10 reached: a successful call without override is answered and the clock
\* has moved since, so that the next call is a repeated call at a later time
C10_SuccessfulCallThenTick ==
    /\ Returned
    /\ result.algorithm_name = Unset
    /\ result.success
    /\ Len(result.previsions) = MaxHours
    /\ now > result.called_at

----------------------------------------------------------------------------
(* Claim about the call boundary, checked under SpecRoutes *)

\* the request answered last came without an algorithm parameter
RequestWithoutAlgorithm ==
    result.op = "get_forecast" /\ result.algorithm_name = NoParam

\* C11: a forecast request that carries no algorithm parameter leaves the
\* current selection as it found it and, when it succeeds, reports the label
\* of the algorithm that was selected when the request came in
C11_NoParameterUsesSelection ==
    RequestWithoutAlgorithm =>
        /\ current_algorithm = result.selection_before
        /\ result.success =>
              result.algorithme_utilise = algorithms[result.selection_before]

\* a request without algorithm parameter, made after linear_regression was
\* selected, is answered with the label of the simple trend
C11_DefaultedRequestServed ==
    /\ RequestWithoutAlgorithm
    /\ result.success
    /\ result.selection_before = "linear_regression"
    /\ result.algorithme_utilise = Registry["simple"]
    /\ current_algorithm = "simple"

----------------------------------------------------------------------------
(* Claim about calls that interleave on the shared instance, checked under *)
(* SpecShared                                                              *)

\* the identifier of the algorithm a dispatch branch runs
ComputedBy(branch) == IF branch = "fallback" THEN "moving_average" ELSE branch

\* the result of a call names the algorithm that computed its values, on
\* every forecast point and on the result, and that algorithm is the valid
\* override the call carried, if any
LabelsNameComputer(ret) ==
    /\ ComputedBy(ret.branch) \in DOMAIN algorithms
    /\ ret.algorithme_utilise = algorithms[ComputedBy(ret.branch)]
    /\ \A i \in DOMAIN ret.previsions :
          ret.previsions[i].algorithme = algorithms[ComputedBy(ret.branch)]
    /\ (NameGiven(ret.algorithm_name) /\ ret.algorithm_name \in DOMAIN algorithms)
          => ComputedBy(ret.branch) = ret.algorithm_name

\* C12: every successful result of generate_forecast carries, on each
\* forecast point and on the result, the label of the algorithm that
\* computed its values, and that algorithm is the call's valid override if
\* it carried one, whatever calls of other threads interleave with it
C12_LabelsNameComputingAlgorithm ==
    \A t \in Threads :
        (frames[t].pc = "returned" /\ frames[t].ret.success)
            => LabelsNameComputer(frames[t].ret)

\* a call that carried the override linear_regression returned values the
\* simple trend computed, with a forecast point labelled as moving average
\* and the result labelled as linear regression
C12_OverrideLostResultReturned ==
    \E t \in Threads :
        /\ frames[t].pc = "returned"
        /\ frames[t].ret.success
        /\ frames[t].ret.algorithm_name = "linear_regression"
        /\ frames[t].ret.branch = "simple"
        /\ frames[t].ret.previsions[1].algorithme = Registry["moving_average"]
        /\ frames[t].ret.algorithme_utilise = Registry["linear_regression"]

----------------------------------------------------------------------------
(* Claim about the override of generate_forecast, checked under Spec *)

\* the call made last was generate_forecast with a registered override
CalledWithValidOverride ==
    /\ result.op = "generate_forecast"
    /\ NameGiven(result.algorithm_name)
    /\ result.algorithm_name \in DOMAIN algorithms

\* this step leaves the result of a generate_forecast call without override
CallWithoutOverride ==
    result'.op = "generate_forecast" /\ result'.algorithm_name = Unset

\* this step is a selection of the identifier that is current after it
SelectionMade ==
    /\ result'.op \in {"set_algorithm", "generate_forecast"}
    /\ NameGiven(result'.algorithm_name)
    /\ result'.algorithm_name = current_algorithm'

\* C13: after generate_forecast with a valid override X the current
\* selection is X, whether the call succeeded, found no or too few usable
\* observations, or met an internal fault; a call without override leaves
\* the selection unchanged and dispatches on it; and the selection changes
\* only when a selection is made
C13_OverridePersists ==
    /\ [](CalledWithValidOverride => current_algorithm = result.algorithm_name)
    /\ [][CallWithoutOverride =>
             /\ current_algorithm' = current_algorithm
             /\ result'.branch # "none" => result'.branch = current_algorithm
             /\ result'.success =>
                   result'.algorithme_utilise = algorithms[current_algorithm]]_vars
    /\ [][current_algorithm' # current_algorithm => SelectionMade]_vars

\* a call with the override linear_regression on an empty batch failed and
\* left linear_regression selected
C13_FailedCallChangedSelection ==
    /\ CalledWithValidOverride
    /\ result.algorithm_name = "linear_regression"
    /\ result.selection_before = "moving_average"
    /\ result.error = "NoHistoricalData"
    /\ current_algorithm = "linear_regression"

=============================================================================
